---- MODULE Spec2Model ----
(***************************************************************************)
(* Model of translate_image() in translate_image_api.py: for each OCR      *)
(* block the handler erases a padded rectangle, searches a font size at    *)
(* which the greedily wrapped translation fits the block's box, expands    *)
(* the box when the smallest size still overflows, and draws the lines     *)
(* centred in the box.                                                     *)
(*                                                                         *)
(* Text is a sequence of characters over Chars.  Pillow's font metrics are *)
(* modelled by a glyph table: every glyph of a font has the same advance,  *)
(* "b" is taller than "a", a space has no ink.                             *)
(***************************************************************************)
EXTENDS Integers, Sequences, FiniteSets, TLC

\* ------------------------------------------------------------------ bounds
MaxTextLen == 4

\* ------------------------------------------------------- program constants
PAD == 2
MIN_FONT == 6
FONT_STEP == 2
BASE_SIZE == 24
LINE_SPACING == 4

\* ------------------------------------------------------------------ inputs
Chars == {"a", "b", " "}
Texts == UNION {[1..n -> Chars] : n \in 0..MaxTextLen}

Canvases == {[w |-> 40, h |-> 30]}
BoxXs == {-5, 0, 30, 45}
BoxYs == {0, 20}
BoxWs == {0, 10, 50}
BoxHs == {-1, 10, 30}
\* the JSON value under "box": a list of numbers, or something that is no list
Boxes ==
    {[list |-> TRUE, elems |-> <<x, y, w, h>>] :
        x \in BoxXs, y \in BoxYs, w \in BoxWs, h \in BoxHs}
    \cup {[list |-> TRUE, elems |-> <<>>],
          [list |-> TRUE, elems |-> <<0, 0, 10>>],
          [list |-> FALSE, elems |-> <<>>]}

Max(a, b) == IF a >= b THEN a ELSE b
Min(a, b) == IF a <= b THEN a ELSE b

RECURSIVE SeqSum(_)
SeqSum(s) == IF s = <<>> THEN 0 ELSE Head(s) + SeqSum(Tail(s))

RECURSIVE SeqMax(_)
SeqMax(s) == IF Len(s) = 1 THEN s[1] ELSE Max(Head(s), SeqMax(Tail(s)))

\* ------------------------------------------------------------------- fonts
\* ImageFont.truetype("DejaVuSans-Bold.ttf", size)
TrueType(size) == [kind |-> "ttf", size |-> size]
\* ImageFont.load_default(): a FreeType font carrying a size attribute, or
\* the bitmap font, which has none (size 0 stands for "no attribute")
DefaultFonts == {[kind |-> "default", size |-> 10], [kind |-> "default", size |-> 0]}

\* getattr(base_font, "size", 24)
FontSizeAttr(font) == IF font.size = 0 THEN BASE_SIZE ELSE font.size

GlyphWidth(font) == IF font.kind = "ttf" THEN font.size \div 2 ELSE 6
GlyphHeight(c, font) ==
    IF c = " " THEN 0
    ELSE IF font.kind = "ttf"
         THEN (IF c = "b" THEN (3 * font.size) \div 4 ELSE font.size \div 2)
         ELSE (IF c = "b" THEN 9 ELSE 7)

RECURSIVE InkHeight(_, _)
InkHeight(text, font) ==
    IF text = <<>> THEN 0
    ELSE Max(GlyphHeight(Head(text), font), InkHeight(Tail(text), font))

\* measure_text(text, font): (width, height) of font.getbbox(text)
measure_text(text, font) == <<Len(text) * GlyphWidth(font), InkHeight(text, font)>>

\* ----------------------------------------------------------------- strings
RECURSIVE LStrip(_)
LStrip(s) == IF s # <<>> /\ s[1] = " " THEN LStrip(Tail(s)) ELSE s

RECURSIVE RStrip(_)
RStrip(s) ==
    IF s # <<>> /\ s[Len(s)] = " " THEN RStrip(SubSeq(s, 1, Len(s) - 1)) ELSE s

\* str.strip()
strip(s) == RStrip(LStrip(s))

\* index of the first space of s, Len(s) + 1 when it has none
WordEnd(s) ==
    IF \E i \in 1..Len(s) : s[i] = " "
    THEN CHOOSE i \in 1..Len(s) : s[i] = " " /\ \A j \in 1..(i - 1) : s[j] # " "
    ELSE Len(s) + 1

\* str.split(): the maximal runs of non-space characters, in order
RECURSIVE split(_)
split(s) ==
    LET t == LStrip(s) IN
    IF t = <<>> THEN <<>>
    ELSE <<SubSeq(t, 1, WordEnd(t) - 1)>> \o split(SubSeq(t, WordEnd(t), Len(t)))

\* ------------------------------------------------------------ line wrapper
\* WrapLoop measuring the word alone where the code measures the candidate line
RECURSIVE WrapLoopMeasuresWord(_, _, _, _)
WrapLoopMeasuresWord(words, current_line, font, max_width) ==
    IF words = <<>> THEN <<current_line>>
    ELSE IF measure_text(Head(words), font)[1] <= max_width
         THEN WrapLoopMeasuresWord(Tail(words), current_line \o <<" ">> \o Head(words),
                                   font, max_width)
         ELSE <<current_line>>
              \o WrapLoopMeasuresWord(Tail(words), Head(words), font, max_width)

\* the for loop of wrap_text_to_width and the append that follows it
RECURSIVE WrapLoop(_, _, _, _)
WrapLoop(words, current_line, font, max_width) ==
    IF words = <<>> THEN <<current_line>>
    ELSE LET test_line == current_line \o <<" ">> \o Head(words) IN
         IF measure_text(test_line, font)[1] <= max_width
         THEN WrapLoop(Tail(words), test_line, font, max_width)
         ELSE <<current_line>> \o WrapLoop(Tail(words), Head(words), font, max_width)

\* wrap_text_to_width without the append of a line that is closed on overflow
RECURSIVE WrapLoopDropsClosed(_, _, _, _)
WrapLoopDropsClosed(words, current_line, font, max_width) ==
    IF words = <<>> THEN <<current_line>>
    ELSE LET test_line == current_line \o <<" ">> \o Head(words) IN
         IF measure_text(test_line, font)[1] <= max_width
         THEN WrapLoopDropsClosed(Tail(words), test_line, font, max_width)
         ELSE WrapLoopDropsClosed(Tail(words), Head(words), font, max_width)

wrap_drops_closed_line(text, font, max_width) ==
    LET words == split(text) IN
    IF words = <<>> THEN <<>>
    ELSE WrapLoopDropsClosed(Tail(words), Head(words), font, max_width)

wrap_text_to_width(text, font, max_width) ==
    LET words == split(text) IN
    IF words = <<>> THEN <<>>
    ELSE WrapLoop(Tail(words), Head(words), font, max_width)

LineWidths(ls, font) == [i \in 1..Len(ls) |-> measure_text(ls[i], font)[1]]
LineHeights(ls, font) == [i \in 1..Len(ls) |-> measure_text(ls[i], font)[2]]
\* sum of the line heights plus 4px between lines
TotalHeight(heights) == SeqSum(heights) + Max(0, (Len(heights) - 1) * LINE_SPACING)

\* max(line_widths) > w0 or total_height > h0, for a non-empty line list
Overflows(ls, widths, total, w, h) == ls # <<>> /\ (SeqMax(widths) > w \/ total > h)

\* the shrink branch taken at every size above the smallest, fitting or not
ShrinkCondIgnoresFit(ls, widths, total, w, h, size) == size > MIN_FONT

\* the condition of the shrink branch
ShrinkCond(ls, widths, total, w, h, size) ==
    Overflows(ls, widths, total, w, h) /\ size > MIN_FONT

\* a shrink step of one pixel
NextSizeByOne(size) == Max(MIN_FONT, size - 1)

NextSize(size) == Max(MIN_FONT, size - FONT_STEP)

\* text_x at the left edge of the box
TextXLeftAligned(x, w, lw) == x

\* text_x of a line of width lw
TextX(x, w, lw) == x + Max(0, (w - lw) \div 2)
\* the first y_offset
StartY(y, h, total) == y + Max(0, (h - total) \div 2)

\* ------------------------------------------------------------------- state
VARIABLES
    image,          \* image.size: [w, h]
    default_font,   \* what ImageFont.load_default() returns in this build
    base_font,      \* the font loaded before the loop over the blocks
    pc,             \* position of the handler
    raw_box,        \* item.get("box", [])
    translation,    \* item.get("translation", "").strip()
    x0, y0, w0, h0, \* the block's box, as the fit loop and the placer use it
    cover,          \* the draw.rectangle calls made for the block
    font_size,
    current_font,
    lines,
    line_widths,
    line_heights,
    total_height,
    y_offset,
    idx,            \* index of the next line to draw
    draws,          \* the draw.text calls made for the block
    tried,          \* history of the fit loop: the size and verdict per pass
    expanded,       \* <<>>, or the box and block sizes the expansion started from
    outcome         \* how the fit loop ended

vars == <<image, default_font, base_font, pc, raw_box, translation, x0, y0, w0, h0,
          cover, font_size, current_font, lines, line_widths, line_heights,
          total_height, y_offset, idx, draws, tried, expanded, outcome>>

env == <<image, default_font, base_font>>
fitvars == <<font_size, current_font, lines, line_widths, line_heights, total_height>>
boxvars == <<x0, y0, w0, h0>>

NoBox == [list |-> TRUE, elems |-> <<>>]

\* the locals of the loop body, all of them dead at the top of the loop
Cleared ==
    /\ raw_box' = NoBox
    /\ translation' = <<>>
    /\ x0' = 0 /\ y0' = 0 /\ w0' = 0 /\ h0' = 0
    /\ cover' = <<>>
    /\ font_size' = 0
    /\ current_font' = base_font
    /\ lines' = <<>> /\ line_widths' = <<>> /\ line_heights' = <<>>
    /\ total_height' = 0
    /\ y_offset' = 0
    /\ idx' = 0
    /\ draws' = <<>>
    /\ tried' = <<>>
    /\ expanded' = <<>>
    /\ outcome' = "none"

\* the handler after the image is open and the base font is loaded (lines 38-45)
Init ==
    /\ image \in Canvases
    /\ default_font \in DefaultFonts
    /\ base_font \in {TrueType(BASE_SIZE), default_font}
    /\ pc = "next"
    /\ raw_box = NoBox
    /\ translation = <<>>
    /\ x0 = 0 /\ y0 = 0 /\ w0 = 0 /\ h0 = 0
    /\ cover = <<>>
    /\ font_size = 0
    /\ current_font = base_font
    /\ lines = <<>> /\ line_widths = <<>> /\ line_heights = <<>>
    /\ total_height = 0
    /\ y_offset = 0
    /\ idx = 0
    /\ draws = <<>>
    /\ tried = <<>>
    /\ expanded = <<>>
    /\ outcome = "none"

\* the two tests that make the loop body `continue`
Skipped(box, text) ==
    IF text = <<>> \/ ~(box.list /\ Len(box.elems) = 4)
    THEN TRUE
    ELSE box.elems[3] <= 0 \/ box.elems[4] <= 0

\* the padded erase rectangle [left, top, right, bottom]
EraseRect(x, y, w, h, img) ==
    LET left == Max(0, x - PAD)
        top == Max(0, y - PAD)
        right == Min(img.w, x + w + PAD)
        bottom == Min(img.h, y + h + PAD)
    IN  [left |-> left, top |-> top,
         right |-> IF right < left THEN left ELSE right,
         bottom |-> IF bottom < top THEN top ELSE bottom]

\* lines 48-56: a block that is passed over
SkipRegion ==
    /\ pc = "next"
    /\ \E box \in Boxes, text \in Texts :
        /\ Skipped(box, strip(text))
        /\ raw_box' = box
        /\ translation' = strip(text)
    /\ pc' = "end"
    /\ outcome' = "skipped"
    /\ UNCHANGED <<env, boxvars, cover, fitvars, y_offset, idx, draws, tried, expanded>>

\* lines 48-75: a block that is processed, up to the top of the fit loop
BeginRegion ==
    /\ pc = "next"
    /\ \E box \in Boxes, text \in Texts :
        /\ ~Skipped(box, strip(text))
        /\ raw_box' = box
        /\ translation' = strip(text)
        /\ x0' = box.elems[1] /\ y0' = box.elems[2]
        /\ w0' = box.elems[3] /\ h0' = box.elems[4]
        /\ cover' = <<EraseRect(box.elems[1], box.elems[2], box.elems[3],
                                box.elems[4], image)>>
    /\ font_size' = FontSizeAttr(base_font)
    /\ current_font' = base_font
    /\ pc' = "wrap"
    /\ UNCHANGED <<env, lines, line_widths, line_heights, total_height, y_offset,
                   idx, draws, tried, expanded, outcome>>

\* lines 107-120: wrap at the current font and measure the lines
WrapMeasure ==
    /\ pc = "wrap"
    /\ LET ls == wrap_text_to_width(translation, current_font, w0)
           hs == LineHeights(ls, current_font)
           ws == LineWidths(ls, current_font)
       IN  /\ lines' = ls
           /\ line_widths' = ws
           /\ line_heights' = hs
           /\ total_height' = TotalHeight(hs)
           /\ tried' = Append(tried,
                  [size |-> font_size,
                   fits |-> ~Overflows(ls, ws, TotalHeight(hs), w0, h0)])
    /\ pc' = "decide"
    /\ UNCHANGED <<env, raw_box, translation, boxvars, cover, font_size, current_font,
                   y_offset, idx, draws, expanded, outcome>>

\* lines 123-130 when truetype() loads: shrink the font and go round again
Shrink ==
    /\ pc = "decide"
    /\ ShrinkCond(lines, line_widths, total_height, w0, h0, font_size)
    /\ font_size' = NextSize(font_size)
    /\ current_font' = TrueType(NextSize(font_size))
    /\ pc' = "wrap"
    /\ UNCHANGED <<env, raw_box, translation, boxvars, cover, lines, line_widths,
                   line_heights, total_height, y_offset, idx, draws, tried, expanded,
                   outcome>>

\* lines 123-129 when truetype() raises: take the default font and leave the loop
ShrinkFontFails ==
    /\ pc = "decide"
    /\ ShrinkCond(lines, line_widths, total_height, w0, h0, font_size)
    /\ font_size' = NextSize(font_size)
    /\ current_font' = default_font
    /\ outcome' = "fallback"
    /\ pc' = "place"
    /\ UNCHANGED <<env, raw_box, translation, boxvars, cover, lines, line_widths,
                   line_heights, total_height, y_offset, idx, draws, tried, expanded>>

\* lines 133-157: at the smallest size and still too big: expand the box
ExpandBox ==
    /\ pc = "decide"
    /\ ~ShrinkCond(lines, line_widths, total_height, w0, h0, font_size)
    /\ Overflows(lines, line_widths, total_height, w0, h0)
    /\ LET new_w == Max(w0, SeqMax(line_widths))
           new_h == Max(h0, total_height)
           w1 == Min(new_w, image.w - x0)
           h1 == Min(new_h, image.h - y0)
           ls == wrap_text_to_width(translation, current_font, w1)
           hs == LineHeights(ls, current_font)
       IN  /\ w0' = w1
           /\ h0' = IF TotalHeight(hs) > image.h - y0 THEN image.h - y0 ELSE h1
           /\ lines' = ls
           /\ line_widths' = LineWidths(ls, current_font)
           /\ line_heights' = hs
           /\ total_height' = TotalHeight(hs)
    /\ expanded' = <<[w |-> w0, h |-> h0, block_width |-> SeqMax(line_widths),
                      block_height |-> total_height, size |-> font_size]>>
    /\ outcome' = "overflow"
    /\ pc' = "place"
    /\ UNCHANGED <<env, raw_box, translation, x0, y0, cover, font_size, current_font,
                   y_offset, idx, draws, tried>>

\* line 160: everything fits
Fits ==
    /\ pc = "decide"
    /\ ~ShrinkCond(lines, line_widths, total_height, w0, h0, font_size)
    /\ ~Overflows(lines, line_widths, total_height, w0, h0)
    /\ outcome' = "fit"
    /\ pc' = "place"
    /\ UNCHANGED <<env, raw_box, translation, boxvars, cover, fitvars, y_offset, idx,
                   draws, tried, expanded>>

\* lines 163-164: the vertical offset of the first line
Place ==
    /\ pc = "place"
    /\ total_height' = TotalHeight(line_heights)
    /\ y_offset' = StartY(y0, h0, TotalHeight(line_heights))
    /\ idx' = 1
    /\ pc' = IF lines = <<>> THEN "end" ELSE "draw"
    /\ UNCHANGED <<env, raw_box, translation, boxvars, cover, font_size, current_font,
                   lines, line_widths, line_heights, draws, tried, expanded, outcome>>

\* lines 167-171: one pass of the drawing loop
DrawLine ==
    /\ pc = "draw"
    /\ LET m == measure_text(lines[idx], current_font) IN
        /\ draws' = Append(draws,
               [x |-> TextX(x0, w0, m[1]), y |-> y_offset, text |-> lines[idx],
                lw |-> m[1], lh |-> m[2]])
        /\ y_offset' = y_offset + m[2] + LINE_SPACING
    /\ idx' = idx + 1
    /\ pc' = IF idx = Len(lines) THEN "end" ELSE "draw"
    /\ UNCHANGED <<env, raw_box, translation, boxvars, cover, fitvars, tried, expanded,
                   outcome>>

\* line 48: on to the next block
NextItem ==
    /\ pc = "end"
    /\ pc' = "next"
    /\ Cleared
    /\ UNCHANGED env

\* lines 173-177: no block is left, the image is saved and sent
Respond ==
    /\ pc = "next"
    /\ pc' = "done"
    /\ UNCHANGED <<env, raw_box, translation, boxvars, cover, fitvars, y_offset, idx,
                   draws, tried, expanded, outcome>>

Next ==
    \/ SkipRegion
    \/ BeginRegion
    \/ WrapMeasure
    \/ Shrink
    \/ ShrinkFontFails
    \/ ExpandBox
    \/ Fits
    \/ Place
    \/ DrawLine
    \/ NextItem
    \/ Respond

Spec == Init /\ [][Next]_vars

\* ------------------------------------------------------------------ claims
InRegion == pc \in {"wrap", "decide", "place", "draw", "end"} /\ outcome # "skipped"
LoopLeft == pc \in {"place", "draw", "end"} /\ outcome # "skipped"
RegionDrawn == pc = "end" /\ outcome # "skipped"
HasRect == raw_box.list /\ Len(raw_box.elems) = 4

\* a rectangle cut down to its intersection with the canvas
ClampedRect(x, y, w, h, img) ==
    LET cx == Max(0, Min(x, img.w))
        cy == Max(0, Min(y, img.h))
        cr == Max(0, Min(x + w, img.w))
        cb == Max(0, Min(y + h, img.h))
    IN  [x |-> cx, y |-> cy, w |-> cr - cx, h |-> cb - cy]

RawClamped ==
    ClampedRect(raw_box.elems[1], raw_box.elems[2], raw_box.elems[3],
                raw_box.elems[4], image)

WordCount(line) == Len(split(line))

RECURSIVE JoinLines(_)
JoinLines(ls) ==
    IF ls = <<>> THEN <<>>
    ELSE IF Len(ls) = 1 THEN ls[1]
    ELSE ls[1] \o <<" ">> \o JoinLines(Tail(ls))

\* C1: every text-draw command of a region lies vertically inside the final
\* rectangle and inside the canvas: y + line_height <= y0 + h0 and
\* y + line_height <= image height (lines that would not are not emitted).
C1_DrawnLinesInsideBox ==
    \A i \in 1..Len(draws) :
        /\ draws[i].y + draws[i].lh <= y0 + h0
        /\ draws[i].y + draws[i].lh <= image.h

\* C2: a region is processed on its rectangle clamped to the canvas: the box the
\* fit loop starts from is the intersection of the raw box with the canvas, and
\* every emitted text x and y is >= 0.
C2_BoxClampedToCanvas ==
    /\ (pc = "wrap" /\ tried = <<>>) =>
            [x |-> x0, y |-> y0, w |-> w0, h |-> h0] = RawClamped
    /\ \A i \in 1..Len(draws) : draws[i].x >= 0 /\ draws[i].y >= 0

\* C3: a region whose rectangle is degenerate after clamping to the canvas gets
\* neither a cover-fill nor a text-draw command.
C3_DegenerateAfterClampSkipped ==
    (pc # "next" /\ pc # "done" /\ HasRect /\ (RawClamped.w <= 0 \/ RawClamped.h <= 0))
        => (cover = <<>> /\ draws = <<>>)

\* C4: the lines of a region, joined with single spaces and split again, are the
\* words of the translation in order, after every pass of the fit loop and
\* after the re-wrap of the box expansion.
C4_WrapCompleteness ==
    (InRegion /\ pc # "wrap") => split(JoinLines(lines)) = split(translation)

C4_Witness ==
    /\ RegionDrawn
    /\ expanded # <<>>
    /\ Len(lines) >= 2
    /\ Len(tried) >= 2

\* C5: the fit loop tries the sizes initial, max(MIN_FONT, size - FONT_STEP), ...
\* in strictly decreasing order, and a pass that fits is the last pass: the
\* size the loop ends with is the first size from the top that fits.
C5_LargestFit ==
    /\ Len(tried) >= 1 => tried[1].size = FontSizeAttr(base_font)
    /\ \A i \in 1..(Len(tried) - 1) :
        /\ tried[i + 1].size = Max(MIN_FONT, tried[i].size - FONT_STEP)
        /\ tried[i + 1].size < tried[i].size
    /\ \A i \in 1..Len(tried) :
        tried[i].fits => (i = Len(tried) /\ pc # "wrap" /\ font_size = tried[i].size)
    /\ (LoopLeft /\ outcome = "fit") => tried[Len(tried)].fits

C5_Witness ==
    /\ RegionDrawn
    /\ outcome = "fit"
    /\ Len(tried) >= 3
    /\ font_size > MIN_FONT
    /\ font_size < FontSizeAttr(base_font)

\* C6: the fit loop makes at most ceil((initial - MIN_FONT) / FONT_STEP) + 1
\* wrap-and-measure passes, and the font size never goes below MIN_FONT.
C6_ShrinkTermination ==
    /\ Len(tried) <=
         ((FontSizeAttr(base_font) - MIN_FONT) + FONT_STEP - 1) \div FONT_STEP + 1
    /\ (InRegion /\ pc # "end") => font_size >= MIN_FONT
    /\ \A i \in 1..Len(tried) : tried[i].size >= MIN_FONT

C6_Witness ==
    /\ RegionDrawn
    /\ base_font = TrueType(BASE_SIZE)
    /\ Len(tried) = 10
    /\ font_size = MIN_FONT

C9_FallbackSingleLine ==
    (LoopLeft /\ outcome = "fallback") =>
        /\ current_font = default_font
        /\ lines = <<translation>>
        /\ line_widths = LineWidths(lines, current_font)
        /\ line_heights = LineHeights(lines, current_font)
        /\ expanded = <<>>

\* C10: the box keeps its width and height unless the fit loop is at MIN_FONT
\* and the block overflows; the expansion sets them to
\* min(max(w, block_width), image.w - x0) and
\* min(max(h, block_height), image.h - y0), so the box grows, never shrinks,
\* and ends inside the canvas.
C10_BoxAdjuster ==
    /\ (InRegion /\ expanded = <<>>) =>
            (w0 = raw_box.elems[3] /\ h0 = raw_box.elems[4])
    /\ expanded # <<>> =>
        LET e == expanded[1] IN
        /\ e.size = MIN_FONT
        /\ e.block_width > e.w \/ e.block_height > e.h
        /\ w0 = Min(Max(e.w, e.block_width), image.w - x0)
        /\ h0 = Min(Max(e.h, e.block_height), image.h - y0)
        /\ w0 >= e.w /\ h0 >= e.h
        /\ x0 + w0 <= image.w /\ y0 + h0 <= image.h

====
